---- MODULE Spec2Model ----
(***************************************************************************)
(* A model of pycocoedit's CocoEditor (src/pycocoedit/cocodata.py): the    *)
(* four record collections and info, the four Filters objects, the         *)
(* filter_applied flag, and the methods that register filters, apply them, *)
(* correct referential integrity and reset the editor.                     *)
(***************************************************************************)
EXTENDS Integers, Sequences, FiniteSets, TLC

VARIABLES images, annotations, categories, licenses, info,
          image_filters, category_filters, annotation_filters, licenses_filters,
          filter_applied,
          dataset,   \* the document most recently handed to __init__ / reset
          last       \* the most recent method call and how it ended

vars == <<images, annotations, categories, licenses, info,
          image_filters, category_filters, annotation_filters, licenses_filters,
          filter_applied, dataset, last>>

\* At most this many filters are registered between two loads.
MaxFilters == 2

(***************************************************************************)
(* Records and source documents                                            *)
(***************************************************************************)
Img(id, name) == [id |-> id, file_name |-> name, width |-> 100, height |-> 100]

Cat(id, name) == [id |-> id, name |-> name, supercategory |-> "category"]

Ann(id, image_id, category_id, area) ==
    [id |-> id, image_id |-> image_id, category_id |-> category_id,
     bbox |-> <<0, 0, 10, 10>>, area |-> area, segmentation |-> << >>]

\* The dataset of the test module: three images, categories and annotations,
\* paired 1-1-1, 2-2-2, 3-3-3, with one license and an info block.
TestDataset ==
    [info |-> [description |-> "COCO 2020 Dataset"],
     licenses |-> << [id |-> 1, name |-> "License", url |-> ""] >>,
     images |-> << Img(1, "image0.jpg"), Img(2, "image1.jpg"), Img(3, "image2.jpg") >>,
     annotations |-> << Ann(1, 1, 1, 100), Ann(2, 2, 2, 200), Ann(3, 3, 3, 300) >>,
     categories |-> << Cat(1, "category0"), Cat(2, "category1"), Cat(3, "category2") >>]

\* A document without info and licenses whose annotations reference a missing
\* image (id 3) and a missing category (id 3); image 2 is referenced only by
\* an annotation of the missing category.
LooseDataset ==
    [images |-> << Img(1, "image0.jpg"), Img(2, "image1.jpg") >>,
     annotations |-> << Ann(1, 1, 1, 100), Ann(2, 3, 1, 200),
                        Ann(3, 2, 3, 300), Ann(4, 1, 2, 300) >>,
     categories |-> << Cat(1, "category0"), Cat(2, "category1") >>]

\* Documents that fail validation: an image without width and height, and
\* a category without supercategory together with an annotation without bbox.
BadImageDataset ==
    [info |-> [description |-> "bad images"],
     licenses |-> << >>,
     images |-> << Img(1, "image0.jpg"), [id |-> 2, file_name |-> "image1.jpg"] >>,
     annotations |-> << Ann(1, 1, 1, 100) >>,
     categories |-> << Cat(1, "category0") >>]

BadAnnotationDataset ==
    [licenses |-> << [id |-> 1, name |-> "License", url |-> ""] >>,
     images |-> << Img(1, "image0.jpg") >>,
     annotations |-> << [id |-> 1, image_id |-> 1, category_id |-> 1,
                         area |-> 300, segmentation |-> << >>] >>,
     categories |-> << Cat(1, "category0"), [id |-> 2, name |-> "category1"] >>]

\* A document whose second annotation has neither id nor bbox.
NoIdDataset ==
    [info |-> [description |-> "no id"],
     images |-> << Img(1, "image0.jpg") >>,
     annotations |-> << Ann(1, 1, 1, 100),
                        [image_id |-> 1, category_id |-> 1, area |-> 200,
                         segmentation |-> << >>] >>,
     categories |-> << Cat(1, "category0") >>]

Documents ==
    {TestDataset, LooseDataset, BadImageDataset, BadAnnotationDataset, NoIdDataset}

(***************************************************************************)
(* Validation (validate_keys and its three callers)                        *)
(***************************************************************************)
\* str() of the small record ids the documents use.
IdText(d) ==
    IF "id" \notin DOMAIN d THEN "Unknown"
    ELSE CASE d.id = 1 -> "1" [] d.id = 2 -> "2" [] d.id = 3 -> "3"
           [] d.id = 4 -> "4" [] OTHER -> "0"

missing_keys(d, required_keys) ==
    SelectSeq(required_keys, LAMBDA key : key \notin DOMAIN d)

\* validate_keys reporting only the first key the record lacks.
validate_keys_first_key_only(data, required_keys, target) ==
    LET bad == {i \in 1..Len(data) : missing_keys(data[i], required_keys) # << >>}
    IN IF bad = {} THEN [ok |-> TRUE]
       ELSE LET i == CHOOSE j \in bad : \A k \in bad : j <= k
            IN [ok |-> FALSE, target |-> target, id |-> IdText(data[i]),
                missing |-> << Head(missing_keys(data[i], required_keys)) >>]

\* The KeyError of the first record that lacks a required key, or ok.
validate_keys(data, required_keys, target) ==
    LET bad == {i \in 1..Len(data) : missing_keys(data[i], required_keys) # << >>}
    IN IF bad = {} THEN [ok |-> TRUE]
       ELSE LET i == CHOOSE j \in bad : \A k \in bad : j <= k
            IN [ok |-> FALSE, target |-> target, id |-> IdText(data[i]),
                missing |-> missing_keys(data[i], required_keys)]

validate_images(imgs) ==
    validate_keys(imgs, <<"id", "file_name", "width", "height">>, "image")

validate_categories(cats) ==
    validate_keys(cats, <<"id", "name", "supercategory">>, "category")

validate_annotations(anns) ==
    validate_keys(anns,
        <<"id", "image_id", "category_id", "bbox", "area", "segmentation">>,
        "annotation")

\* The three validations in the order __init__ and reset run them.
Validate(imgs, cats, anns) ==
    IF ~validate_images(imgs).ok THEN validate_images(imgs)
    ELSE IF ~validate_categories(cats).ok THEN validate_categories(cats)
    ELSE validate_annotations(anns)

\* dataset.get(key, default)
Get(doc, key, default) == IF key \in DOMAIN doc THEN doc[key] ELSE default

\* Filters(): a fresh Filter Set.
Filters == [include_filters |-> << >>, exclude_filters |-> << >>]

(***************************************************************************)
(* Filters (pycocoedit.filter)                                             *)
(***************************************************************************)
\* Filters.add: append to the sequence that matches the filter's kind.
FiltersAdd(filters, filter) ==
    IF filter.kind = "inclusion"
    THEN [filters EXCEPT !.include_filters = Append(@, filter)]
    ELSE [filters EXCEPT !.exclude_filters = Append(@, filter)]

\* The name-based filters: the record's name field is one of the names.
ImageNameIncludeFilter(file_names) ==
    [cls |-> "ImageNameIncludeFilter", kind |-> "inclusion",
     key |-> "file_name", names |-> file_names, gt |-> 0]

ImageNameExcludeFilter(file_names) ==
    [cls |-> "ImageNameExcludeFilter", kind |-> "exclusion",
     key |-> "file_name", names |-> file_names, gt |-> 0]

CategoryIncludeFilter(category_names) ==
    [cls |-> "CategoryIncludeFilter", kind |-> "inclusion",
     key |-> "name", names |-> category_names, gt |-> 0]

CategoryExcludeFilter(category_names) ==
    [cls |-> "CategoryExcludeFilter", kind |-> "exclusion",
     key |-> "name", names |-> category_names, gt |-> 0]

\* The custom filters of the test module: data["area"] > gt.
AreaFilter(kind, gt) ==
    [cls |-> "AreaFilter", kind |-> kind, key |-> "area", names |-> {}, gt |-> gt]

\* filter.apply(d) raises KeyError when it reads a key the record lacks.
ApplyRaises(filter, d) == filter.key \notin DOMAIN d

\* filter.apply(d), for a record that has the key.
Apply(filter, d) ==
    IF filter.cls = "AreaFilter" THEN d[filter.key] > filter.gt
    ELSE d[filter.key] \in filter.names

(***************************************************************************)
(* The arguments the callers pass                                          *)
(***************************************************************************)
\* An optional list of names: None, or the names given.
None == [given |-> FALSE, names |-> {}]
Names(names) == [given |-> TRUE, names |-> names]

\* target_type = None
NoTarget == "<None>"

IncludeFiles == {None, Names({"image0.jpg", "image1.jpg"})}
ExcludeFiles == {None, Names({"image1.jpg"})}
IncludeNames == {None, Names({"category0", "category1"})}
ExcludeNames == {None, Names({"category0"})}

CustomFilters ==
    {AreaFilter("inclusion", 100), AreaFilter("exclusion", 250),
     AreaFilter("exclusion", 100)}

TargetTypes == {"image", "category", "annotation", "license"}

\* The target_type arguments tried with add_custom_filter: two valid ones,
\* an unknown tag and None.
CustomTargets == {"annotation", "license", "segment", NoTarget}

(***************************************************************************)
(* The editor's state as one record                                        *)
(***************************************************************************)
FilterSets ==
    [image |-> image_filters, category |-> category_filters,
     annotation |-> annotation_filters, license |-> licenses_filters]

Collections ==
    [images |-> images, categories |-> categories,
     annotations |-> annotations, licenses |-> licenses]

NumFilters ==
    Len(image_filters.include_filters) + Len(image_filters.exclude_filters)
    + Len(category_filters.include_filters) + Len(category_filters.exclude_filters)
    + Len(annotation_filters.include_filters) + Len(annotation_filters.exclude_filters)
    + Len(licenses_filters.include_filters) + Len(licenses_filters.exclude_filters)

(***************************************************************************)
(* __init__                                                                *)
(***************************************************************************)
EditorState ==
    [images |-> images, annotations |-> annotations, categories |-> categories,
     licenses |-> licenses, info |-> info,
     image_filters |-> image_filters, category_filters |-> category_filters,
     annotation_filters |-> annotation_filters,
     licenses_filters |-> licenses_filters,
     filter_applied |-> filter_applied]

SetEditorState(self) ==
    /\ images' = self.images
    /\ annotations' = self.annotations
    /\ categories' = self.categories
    /\ licenses' = self.licenses
    /\ info' = self.info
    /\ image_filters' = self.image_filters
    /\ category_filters' = self.category_filters
    /\ annotation_filters' = self.annotation_filters
    /\ licenses_filters' = self.licenses_filters
    /\ filter_applied' = self.filter_applied

\* CocoEditor(annotation): the validation result and, when it passes, the
\* editor constructed.
CocoEditor(annotation) ==
    [err |-> Validate(annotation.images, annotation.categories,
                      annotation.annotations),
     self |-> [images |-> annotation.images,
               annotations |-> annotation.annotations,
               categories |-> annotation.categories,
               licenses |-> Get(annotation, "licenses", << >>),
               info |-> Get(annotation, "info", << >>),
               image_filters |-> Filters,
               category_filters |-> Filters,
               annotation_filters |-> Filters,
               licenses_filters |-> Filters,
               filter_applied |-> FALSE]]

Init ==
    \E doc \in Documents :
        LET e == CocoEditor(doc)
        IN /\ e.err.ok
           /\ dataset = doc
           /\ images = e.self.images
           /\ annotations = e.self.annotations
           /\ categories = e.self.categories
           /\ licenses = e.self.licenses
           /\ info = e.self.info
           /\ image_filters = e.self.image_filters
           /\ category_filters = e.self.category_filters
           /\ annotation_filters = e.self.annotation_filters
           /\ licenses_filters = e.self.licenses_filters
           /\ filter_applied = e.self.filter_applied
           /\ last = [op |-> "__init__", err |-> "none"]

(***************************************************************************)
(* Filter registration                                                     *)
(***************************************************************************)
\* __add_filter without the check of target_type: an unknown tag falls
\* through the four ifs.
add_filter_unchecked(fs, filter, target_type) ==
    [raised |-> FALSE,
     fs |-> IF target_type \in {"image", "category", "annotation", "license"}
            THEN [fs EXCEPT ![target_type] = FiltersAdd(@, filter)]
            ELSE fs]

\* __add_filter with the license branch adding to annotation_filters.
add_filter_misrouted(fs, filter, target_type) ==
    IF target_type \notin {"image", "category", "annotation", "license"}
    THEN [raised |-> TRUE, fs |-> fs]
    ELSE [raised |-> FALSE,
          fs |-> IF target_type = "license"
                 THEN [fs EXCEPT !.annotation = FiltersAdd(@, filter)]
                 ELSE [fs EXCEPT ![target_type] = FiltersAdd(@, filter)]]

\* __add_filter on the four Filter Sets fs: the sets afterwards, or raised.
add_filter(fs, filter, target_type) ==
    IF target_type \notin {"image", "category", "annotation", "license"}
    THEN [raised |-> TRUE, fs |-> fs]
    ELSE LET f1 == IF target_type = "image"
                   THEN [fs EXCEPT !.image = FiltersAdd(@, filter)] ELSE fs
             f2 == IF target_type = "category"
                   THEN [f1 EXCEPT !.category = FiltersAdd(@, filter)] ELSE f1
             f3 == IF target_type = "annotation"
                   THEN [f2 EXCEPT !.annotation = FiltersAdd(@, filter)] ELSE f2
             f4 == IF target_type = "license"
                   THEN [f3 EXCEPT !.license = FiltersAdd(@, filter)] ELSE f3
         IN [raised |-> FALSE, fs |-> f4]

SetFilterSets(fs) ==
    /\ image_filters' = fs.image
    /\ category_filters' = fs.category
    /\ annotation_filters' = fs.annotation
    /\ licenses_filters' = fs.license

Registered(args) == Cardinality({i \in DOMAIN args : args[i] # None})

add_file_name_filter(include_files, exclude_files) ==
    /\ NumFilters + Registered(<<include_files, exclude_files>>) <= MaxFilters
    /\ LET r1 == IF include_files # None
                 THEN add_filter(FilterSets, ImageNameIncludeFilter(include_files.names),
                                 "image").fs
                 ELSE FilterSets
           r2 == IF exclude_files # None
                 THEN add_filter(r1, ImageNameExcludeFilter(exclude_files.names), "image").fs
                 ELSE r1
       IN SetFilterSets(r2)
    /\ last' = [op |-> "add_file_name_filter", err |-> "none",
                added |-> Registered(<<include_files, exclude_files>>)]
    /\ UNCHANGED <<images, annotations, categories, licenses, info,
                   filter_applied, dataset>>

add_category_filter(include_names, exclude_names) ==
    /\ NumFilters + Registered(<<include_names, exclude_names>>) <= MaxFilters
    /\ LET r1 == IF include_names # None
                 THEN add_filter(FilterSets, CategoryIncludeFilter(include_names.names),
                                 "category").fs
                 ELSE FilterSets
           r2 == IF exclude_names # None
                 THEN add_filter(r1, CategoryExcludeFilter(exclude_names.names),
                                 "category").fs
                 ELSE r1
       IN SetFilterSets(r2)
    /\ last' = [op |-> "add_category_filter", err |-> "none",
                added |-> Registered(<<include_names, exclude_names>>)]
    /\ UNCHANGED <<images, annotations, categories, licenses, info,
                   filter_applied, dataset>>

\* add_custom_filter written to mark the collections as unfiltered again.
add_custom_filter_clears_flag(custom_filter, target_type) ==
    /\ target_type \in TargetTypes => NumFilters + 1 <= MaxFilters
    /\ LET r == IF target_type = NoTarget THEN [raised |-> TRUE, fs |-> FilterSets]
                ELSE add_filter(FilterSets, custom_filter, target_type)
       IN /\ SetFilterSets(r.fs)
          /\ filter_applied' = IF r.raised THEN filter_applied ELSE FALSE
          /\ last' = [op |-> "add_custom_filter",
                      err |-> IF r.raised THEN "ValueError" ELSE "none",
                      added |-> IF r.raised THEN 0 ELSE 1,
                      target_type |-> target_type]
    /\ UNCHANGED <<images, annotations, categories, licenses, info, dataset>>

add_custom_filter(custom_filter, target_type) ==
    /\ target_type \in TargetTypes => NumFilters + 1 <= MaxFilters
    /\ LET r == IF target_type = NoTarget THEN [raised |-> TRUE, fs |-> FilterSets]
                ELSE add_filter(FilterSets, custom_filter, target_type)
       IN /\ SetFilterSets(r.fs)
          /\ last' = [op |-> "add_custom_filter",
                      err |-> IF r.raised THEN "ValueError" ELSE "none",
                      added |-> IF r.raised THEN 0 ELSE 1,
                      target_type |-> target_type]
    /\ UNCHANGED <<images, annotations, categories, licenses, info,
                   filter_applied, dataset>>

(***************************************************************************)
(* apply_filter                                                            *)
(***************************************************************************)
\* The inner loop over the filters for one record d: the filters are asked
\* in order until one answers `want` ("hit"), one raises, or none is left.
RECURSIVE Scan(_, _, _)
Scan(d, filters, want) ==
    IF filters = << >> THEN "miss"
    ELSE IF ApplyRaises(Head(filters), d) THEN "raise"
    ELSE IF Apply(Head(filters), d) = want THEN "hit"
    ELSE Scan(d, Tail(filters), want)

StageRaises(data, filters, want) ==
    \E i \in 1..Len(data) : Scan(data[i], filters, want) = "raise"

\* The inclusion loop starting at the second record of the collection.
include_stage_skips_first(data, include_filters) ==
    IF StageRaises(data, include_filters, TRUE)
    THEN [raised |-> TRUE, new_dicts |-> << >>]
    ELSE [raised |-> FALSE,
          new_dicts |-> SelectSeq(IF data = << >> THEN data ELSE Tail(data),
                            LAMBDA d : Scan(d, include_filters, TRUE) = "hit")]

\* include_stage without the break: a record is appended once per include
\* filter that accepts it.
RECURSIVE Accepting(_, _)
Accepting(d, filters) ==
    IF filters = << >> THEN << >>
    ELSE (IF Apply(Head(filters), d) THEN <<d>> ELSE << >>)
         \o Accepting(d, Tail(filters))

RECURSIVE AppendedWithoutBreak(_, _)
AppendedWithoutBreak(data, filters) ==
    IF data = << >> THEN << >>
    ELSE Accepting(Head(data), filters) \o AppendedWithoutBreak(Tail(data), filters)

include_stage_no_break(data, include_filters) ==
    IF StageRaises(data, include_filters, TRUE)
    THEN [raised |-> TRUE, new_dicts |-> << >>]
    ELSE [raised |-> FALSE,
          new_dicts |-> AppendedWithoutBreak(data, include_filters)]

\* The inclusion loop: new_dicts holds the records some include filter accepts.
include_stage(data, include_filters) ==
    IF StageRaises(data, include_filters, TRUE)
    THEN [raised |-> TRUE, new_dicts |-> << >>]
    ELSE [raised |-> FALSE,
          new_dicts |-> SelectSeq(data,
                            LAMBDA d : Scan(d, include_filters, TRUE) = "hit")]

\* exclude_stage without the break: a record is appended once per exclude
\* filter that rejects it.
RECURSIVE Rejecting(_, _)
Rejecting(d, filters) ==
    IF filters = << >> THEN << >>
    ELSE (IF ~Apply(Head(filters), d) THEN <<d>> ELSE << >>)
         \o Rejecting(d, Tail(filters))

RECURSIVE AppendedPerRejection(_, _)
AppendedPerRejection(data, filters) ==
    IF data = << >> THEN << >>
    ELSE Rejecting(Head(data), filters) \o AppendedPerRejection(Tail(data), filters)

exclude_stage_no_break(data, exclude_filters) ==
    IF StageRaises(data, exclude_filters, FALSE)
    THEN [raised |-> TRUE, new_dicts |-> << >>]
    ELSE [raised |-> FALSE,
          new_dicts |-> AppendedPerRejection(data, exclude_filters)]

\* exclude_stage dropping a record as soon as any exclude filter matches it.
exclude_stage_drop_if_any(data, exclude_filters) ==
    IF StageRaises(data, exclude_filters, FALSE)
    THEN [raised |-> TRUE, new_dicts |-> << >>]
    ELSE [raised |-> FALSE,
          new_dicts |-> SelectSeq(data,
                            LAMBDA d : \A i \in 1..Len(exclude_filters) :
                                ~Apply(exclude_filters[i], d))]

\* The exclusion loop: new_dicts holds the records some exclude filter rejects.
exclude_stage(data, exclude_filters) ==
    IF StageRaises(data, exclude_filters, FALSE)
    THEN [raised |-> TRUE, new_dicts |-> << >>]
    ELSE [raised |-> FALSE,
          new_dicts |-> SelectSeq(data,
                            LAMBDA d : Scan(d, exclude_filters, FALSE) = "hit")]

\* filter_collection without the guards on empty filter lists: both stages
\* always run, so a collection with no inclusion filter keeps nothing.
filter_collection_unguarded(target, filters) ==
    LET inc == include_stage(target, filters.include_filters)
        exc == exclude_stage(target, filters.exclude_filters)
    IN IF inc.raised THEN [raised |-> TRUE, data |-> target]
       ELSE IF exc.raised THEN [raised |-> TRUE, data |-> inc.new_dicts]
       ELSE IF Len(filters.exclude_filters) # 0
            THEN [raised |-> FALSE, data |-> exc.new_dicts]
            ELSE [raised |-> FALSE, data |-> inc.new_dicts]

\* One round of the loop over the collections. target is targets[i], the list
\* the collection held when apply_filter started: both stages iterate it.
\* data is what update(i, ...) has left in the collection when the round ends.
filter_collection(target, filters) ==
    LET inc == include_stage(target, filters.include_filters)
        exc == exclude_stage(target, filters.exclude_filters)
        included == IF Len(filters.include_filters) # 0 THEN inc.new_dicts ELSE target
    IN IF Len(filters.include_filters) # 0 /\ inc.raised
       THEN [raised |-> TRUE, data |-> target]
       ELSE IF Len(filters.exclude_filters) # 0
            THEN IF exc.raised THEN [raised |-> TRUE, data |-> included]
                 ELSE [raised |-> FALSE, data |-> exc.new_dicts]
            ELSE [raised |-> FALSE, data |-> included]

\* apply_filter on the collections c with the Filter Sets fs: images,
\* categories, annotations, licenses in turn, stopping at the first raise.
apply_filter(c, fs) ==
    LET r0 == filter_collection(c.images, fs.image)
        r1 == filter_collection(c.categories, fs.category)
        r2 == filter_collection(c.annotations, fs.annotation)
        r3 == filter_collection(c.licenses, fs.license)
        s1 == r0.raised
        s2 == s1 \/ r1.raised
        s3 == s2 \/ r2.raised
    IN [images |-> r0.data,
        categories |-> IF s1 THEN c.categories ELSE r1.data,
        annotations |-> IF s2 THEN c.annotations ELSE r2.data,
        licenses |-> IF s3 THEN c.licenses ELSE r3.data,
        raised |-> s3 \/ r3.raised]

SetCollections(c) ==
    /\ images' = c.images
    /\ categories' = c.categories
    /\ annotations' = c.annotations
    /\ licenses' = c.licenses

\* apply_filter setting the flag only when it had a filter to apply.
ApplyFilter_flag_needs_filters ==
    LET r == apply_filter(Collections, FilterSets)
    IN /\ SetCollections(r)
       /\ filter_applied' = IF r.raised \/ NumFilters = 0 THEN filter_applied
                            ELSE TRUE
       /\ last' = [op |-> "apply_filter",
                   err |-> IF r.raised THEN "KeyError" ELSE "none",
                   applied_before |-> filter_applied]
       /\ UNCHANGED <<info, image_filters, category_filters, annotation_filters,
                      licenses_filters, dataset>>

ApplyFilter ==
    LET r == apply_filter(Collections, FilterSets)
    IN /\ SetCollections(r)
       /\ filter_applied' = IF r.raised THEN filter_applied ELSE TRUE
       /\ last' = [op |-> "apply_filter",
                   err |-> IF r.raised THEN "KeyError" ELSE "none",
                   applied_before |-> filter_applied]
       /\ UNCHANGED <<info, image_filters, category_filters, annotation_filters,
                      licenses_filters, dataset>>

(***************************************************************************)
(* correct                                                                 *)
(***************************************************************************)
Ids(data) == {data[i].id : i \in 1..Len(data)}

\* The first annotation step removing from the list it is iterating: the
\* record that follows a removed one is never examined and stays.
RECURSIVE drop_no_category_removing_in_place(_, _)
drop_no_category_removing_in_place(anns, cats) ==
    IF anns = << >> THEN << >>
    ELSE IF Head(anns).category_id \in Ids(cats)
         THEN <<Head(anns)>> \o drop_no_category_removing_in_place(Tail(anns), cats)
         ELSE IF Tail(anns) = << >> THEN << >>
              ELSE <<Head(Tail(anns))>>
                   \o drop_no_category_removing_in_place(Tail(Tail(anns)), cats)

\* Remove annotations with category_id not in categories.
drop_no_category(anns, cats) ==
    SelectSeq(anns, LAMBDA ann : ann.category_id \in Ids(cats))

\* correct without its second step.
drop_no_image_skipped(anns, imgs) == anns

\* Remove annotations with no images.
drop_no_image(anns, imgs) ==
    SelectSeq(anns, LAMBDA ann : ann.image_id \in Ids(imgs))

\* Remove images with no annotations.
drop_unused_images(imgs, anns) ==
    SelectSeq(imgs, LAMBDA img :
        img.id \in {anns[i].image_id : i \in 1..Len(anns)})

\* The category step comparing against the annotations' image_id.
drop_unused_categories_by_image_id(cats, anns) ==
    SelectSeq(cats, LAMBDA cat :
        cat.id \in {anns[i].image_id : i \in 1..Len(anns)})

\* Remove categories with no annotations.
drop_unused_categories(cats, anns) ==
    SelectSeq(cats, LAMBDA cat :
        cat.id \in {anns[i].category_id : i \in 1..Len(anns)})

\* correct pruning the images and categories against the annotations it
\* started with, before the two annotation steps.
correct_steps_prune_first(c, correct_image, correct_category) ==
    LET a1 == drop_no_category(c.annotations, c.categories)
        a2 == drop_no_image(a1, c.images)
    IN [images |-> IF correct_image
                   THEN drop_unused_images(c.images, c.annotations)
                   ELSE c.images,
        categories |-> IF correct_category
                       THEN drop_unused_categories(c.categories, c.annotations)
                       ELSE c.categories,
        annotations |-> a2,
        licenses |-> c.licenses]

\* The correction steps of correct, after its optional apply_filter.
correct_steps(c, correct_image, correct_category) ==
    LET a1 == drop_no_category(c.annotations, c.categories)
        a2 == drop_no_image(a1, c.images)
    IN [images |-> IF correct_image THEN drop_unused_images(c.images, a2)
                   ELSE c.images,
        categories |-> IF correct_category
                       THEN drop_unused_categories(c.categories, a2)
                       ELSE c.categories,
        annotations |-> a2,
        licenses |-> c.licenses]

\* The collections correct starts its steps from: filtered first when
\* filter_applied is false.
correct_start(c, fs, applied) ==
    IF ~applied THEN apply_filter(c, fs)
    ELSE [images |-> c.images, categories |-> c.categories,
          annotations |-> c.annotations, licenses |-> c.licenses,
          raised |-> FALSE]

\* The dict correct returns, built from the editor's attributes.
correct_return(self_info, c) ==
    [info |-> self_info, licenses |-> c.licenses, images |-> c.images,
     categories |-> c.categories, annotations |-> c.annotations]

\* Whether the call before the one being recorded was a
\* correct(correct_image=False) that returned.
AfterCorrectKeepingImages ==
    /\ last.op = "correct" /\ last.err = "none"
    /\ ~last.correct_image /\ ~last.correct_category

Correct(correct_image, correct_category) ==
    LET r == correct_start(Collections, FilterSets, filter_applied)
        k == correct_steps(r, correct_image, correct_category)
    IN /\ IF r.raised THEN SetCollections(r) ELSE SetCollections(k)
       /\ filter_applied' = IF r.raised THEN filter_applied ELSE TRUE
       /\ last' = IF r.raised
                  THEN [op |-> "correct", err |-> "KeyError",
                        correct_image |-> correct_image,
                        correct_category |-> correct_category]
                  ELSE [op |-> "correct", err |-> "none",
                        correct_image |-> correct_image,
                        correct_category |-> correct_category,
                        ret |-> correct_return(info, k),
                        before |-> [collections |-> Collections,
                                    filter_applied |-> filter_applied,
                                    after_correct_keeping_images |-> AfterCorrectKeepingImages]]
       /\ UNCHANGED <<info, image_filters, category_filters, annotation_filters,
                      licenses_filters, dataset>>

(***************************************************************************)
(* export                                                                  *)
(***************************************************************************)
\* A JSON object: its members, one (key, value) pair per key.
JsonObject(d) == {<<key, d[key]>> : key \in DOMAIN d}

\* The dict json.load builds from an object's members.
FromJsonObject(o) ==
    [key \in {m[1] : m \in o} |-> (CHOOSE m \in o : m[1] = key)[2]]

JsonArray(data) == [i \in 1..Len(data) |-> JsonObject(data[i])]

FromJsonArray(a) == [i \in 1..Len(a) |-> FromJsonObject(a[i])]

\* json.dump of the dict correct returns: the document written.
json_dump(d) ==
    JsonObject([info |-> JsonObject(d.info),
                licenses |-> JsonArray(d.licenses),
                images |-> JsonArray(d.images),
                categories |-> JsonArray(d.categories),
                annotations |-> JsonArray(d.annotations)])

\* json.load of a written document: the dict CocoEditor(path) starts from.
json_load(text) ==
    LET top == FromJsonObject(text)
    IN [key \in DOMAIN top |->
           IF key = "info" THEN FromJsonObject(top[key])
           ELSE FromJsonArray(top[key])]

\* export(file_path, ...): correct, then the dump to the file; writable says
\* whether open(file_path, "w") succeeds.
Export(correct_image, correct_category, writable) ==
    LET r == correct_start(Collections, FilterSets, filter_applied)
        k == correct_steps(r, correct_image, correct_category)
    IN /\ IF r.raised THEN SetCollections(r) ELSE SetCollections(k)
       /\ filter_applied' = IF r.raised THEN filter_applied ELSE TRUE
       /\ last' = IF r.raised
                  THEN [op |-> "export", err |-> "KeyError",
                        correct_image |-> correct_image,
                        correct_category |-> correct_category]
                  ELSE IF ~writable
                  THEN [op |-> "export", err |-> "OSError",
                        correct_image |-> correct_image,
                        correct_category |-> correct_category]
                  ELSE [op |-> "export", err |-> "none",
                        correct_image |-> correct_image,
                        correct_category |-> correct_category,
                        written |-> json_dump(correct_return(info, k))]
       /\ UNCHANGED <<info, image_filters, category_filters, annotation_filters,
                      licenses_filters, dataset>>

(***************************************************************************)
(* reset                                                                   *)
(***************************************************************************)
\* reset that forgets to clear filter_applied.
reset_keeps_filter_applied(self, annotation) ==
    LET loaded == [self EXCEPT !.images = annotation.images,
                               !.annotations = annotation.annotations,
                               !.categories = annotation.categories,
                               !.licenses = Get(annotation, "licenses", << >>),
                               !.info = Get(annotation, "info", << >>)]
        v == Validate(loaded.images, loaded.categories, loaded.annotations)
    IN [err |-> v,
        self |-> IF v.ok
                 THEN [loaded EXCEPT !.image_filters = Filters,
                                     !.category_filters = Filters,
                                     !.annotation_filters = Filters,
                                     !.licenses_filters = Filters]
                 ELSE loaded]

\* reset(annotation) on the editor self: the collections and info are
\* assigned before validation runs, the Filter Sets and the flag after it.
reset(self, annotation) ==
    LET loaded == [self EXCEPT !.images = annotation.images,
                               !.annotations = annotation.annotations,
                               !.categories = annotation.categories,
                               !.licenses = Get(annotation, "licenses", << >>),
                               !.info = Get(annotation, "info", << >>)]
        v == Validate(loaded.images, loaded.categories, loaded.annotations)
    IN [err |-> v,
        self |-> IF v.ok
                 THEN [loaded EXCEPT !.image_filters = Filters,
                                     !.category_filters = Filters,
                                     !.annotation_filters = Filters,
                                     !.licenses_filters = Filters,
                                     !.filter_applied = FALSE]
                 ELSE loaded]

Reset(doc) ==
    LET r == reset(EditorState, doc)
    IN /\ dataset' = doc
       /\ SetEditorState(r.self)
       /\ last' = IF r.err.ok THEN [op |-> "reset", err |-> "none"]
                  ELSE [op |-> "reset", err |-> "KeyError", message |-> r.err]

Next ==
    \/ \E inc \in IncludeFiles, exc \in ExcludeFiles : add_file_name_filter(inc, exc)
    \/ \E inc \in IncludeNames, exc \in ExcludeNames : add_category_filter(inc, exc)
    \/ \E f \in CustomFilters, t \in CustomTargets : add_custom_filter(f, t)
    \/ ApplyFilter
    \/ \E ci \in BOOLEAN, cc \in BOOLEAN : Correct(ci, cc)
    \/ \E ci \in BOOLEAN, cc \in BOOLEAN, writable \in BOOLEAN :
           Export(ci, cc, writable)
    \/ \E doc \in Documents : Reset(doc)

Spec == Init /\ [][Next]_vars

(***************************************************************************)
(* Properties                                                              *)
(***************************************************************************)
\* The filter's decision function returns v for the record d.
Returns(filter, d, v) == ~ApplyRaises(filter, d) /\ Apply(filter, d) = v

MatchedBySome(d, filters) ==
    \E i \in 1..Len(filters) : Returns(filters[i], d, TRUE)

RejectedBySome(d, filters) ==
    \E i \in 1..Len(filters) : Returns(filters[i], d, FALSE)

\* A step that is a completed call of the method op.
Completed(op) == last'.op = op /\ last'.err = "none"

\* The four (collection, collection afterwards, Filter Set) triples.
Filtered ==
    { <<images, images', image_filters>>,
      <<categories, categories', category_filters>>,
      <<annotations, annotations', annotation_filters>>,
      <<licenses, licenses', licenses_filters>> }

\* C1: in one apply_filter call, a collection with both inclusion and
\* exclusion filters becomes exactly its records, in order, that some
\* inclusion filter matches and some exclusion filter rejects.
C1_ExclusionNarrowsInclusion ==
    [][Completed("apply_filter") =>
        \A t \in Filtered :
            (Len(t[3].include_filters) >= 1 /\ Len(t[3].exclude_filters) >= 1) =>
                t[2] = SelectSeq(t[1], LAMBDA d :
                           /\ MatchedBySome(d, t[3].include_filters)
                           /\ RejectedBySome(d, t[3].exclude_filters))]_vars

\* C2: with no inclusion filter, apply_filter drops a record exactly when
\* every exclusion filter of its collection returns true for it; the
\* survivors keep their order.
C2_ExclusionOnly ==
    [][Completed("apply_filter") =>
        \A t \in Filtered :
            (Len(t[3].include_filters) = 0 /\ Len(t[3].exclude_filters) >= 1) =>
                t[2] = SelectSeq(t[1], LAMBDA d :
                           RejectedBySome(d, t[3].exclude_filters))]_vars

\* apply_filter has run with the exclusion filters "area > 250" and
\* "area > 100" on the areas [100, 200, 300] and left [100, 200]: the record
\* of area 200, which one of the two filters matches, survived.
C2_Witness ==
    /\ last.op = "apply_filter" /\ last.err = "none"
    /\ dataset = TestDataset
    /\ annotation_filters.include_filters = << >>
    /\ annotation_filters.exclude_filters =
           << AreaFilter("exclusion", 250), AreaFilter("exclusion", 100) >>
    /\ annotations = << Ann(1, 1, 1, 100), Ann(2, 2, 2, 200) >>

ReferentialIntegrity ==
    \A i \in 1..Len(annotations) :
        /\ annotations[i].image_id \in Ids(images)
        /\ annotations[i].category_id \in Ids(categories)

\* C4: right after a completed correct, whatever its two flags and whatever
\* came before, every annotation references a held image and a held category.
C4_IntegrityAfterCorrect ==
    (last.op = "correct" /\ last.err = "none") => ReferentialIntegrity

\* correct has completed on the document whose annotations referenced a
\* missing image and a missing category, and dropped those two annotations.
C4_Witness ==
    /\ last.op = "correct" /\ last.err = "none"
    /\ dataset = LooseDataset
    /\ ~(\A i \in 1..Len(dataset.annotations) :
            /\ dataset.annotations[i].image_id \in Ids(dataset.images)
            /\ dataset.annotations[i].category_id \in Ids(dataset.categories))
    /\ annotations = << Ann(1, 1, 1, 100), Ann(4, 1, 2, 300) >>

\* C5: when a filter has just been registered and correct is called next,
\* correct applies the registered filters before its correction steps, also
\* when an apply_filter had run before the registration.
C5_CorrectAppliesNewFilter ==
    [][(/\ last.op \in {"add_file_name_filter", "add_category_filter",
                        "add_custom_filter"}
        /\ last.added >= 1
        /\ ~apply_filter(Collections, FilterSets).raised
        /\ Completed("correct")) =>
            [images |-> images', categories |-> categories',
             annotations |-> annotations', licenses |-> licenses'] =
            correct_steps(apply_filter(Collections, FilterSets),
                          last'.correct_image, last'.correct_category)]_vars

\* C6: a completed reset leaves the collections and info equal to the
\* document given, the four Filter Sets empty and filter_applied false: the
\* state of an editor freshly constructed from that document.
C6_ResetRestores ==
    (last.op = "reset" /\ last.err = "none") =>
        /\ EditorState = CocoEditor(dataset).self
        /\ images = dataset.images
        /\ annotations = dataset.annotations
        /\ categories = dataset.categories
        /\ licenses = Get(dataset, "licenses", << >>)
        /\ info = Get(dataset, "info", << >>)
        /\ \A fs \in {image_filters, category_filters, annotation_filters,
                      licenses_filters} :
               fs.include_filters = << >> /\ fs.exclude_filters = << >>
        /\ filter_applied = FALSE

\* reset has completed with the document that has neither info nor licenses
\* and holds its four annotations again.
C6_Witness ==
    /\ last.op = "reset" /\ last.err = "none"
    /\ dataset = LooseDataset
    /\ Len(annotations) = 4
    /\ licenses = << >>

\* The collections correct's steps start from in the current state.
Base == correct_start(Collections, FilterSets, filter_applied)

\* C7: correct() with the default flags removes the annotations whose
\* category or image is not held, then exactly the images no surviving
\* annotation references, and leaves the categories alone; with
\* correct_image false the images are left alone.
C7_CorrectDefault ==
    [][(Completed("correct") /\ ~last'.correct_category) =>
        /\ annotations' = SelectSeq(Base.annotations, LAMBDA ann :
                              /\ ann.category_id \in Ids(Base.categories)
                              /\ ann.image_id \in Ids(Base.images))
        /\ categories' = Base.categories
        /\ last'.correct_image =>
               images' = SelectSeq(Base.images, LAMBDA img :
                             \E i \in 1..Len(annotations') :
                                 annotations'[i].image_id = img.id)
        /\ ~last'.correct_image => images' = Base.images]_vars

\* correct() has completed on the document where image 2 is referenced only
\* by an annotation of a missing category: image 2 is gone, both categories
\* are held.
C7_Witness ==
    /\ last.op = "correct" /\ last.err = "none"
    /\ last.correct_image /\ ~last.correct_category
    /\ dataset = LooseDataset
    /\ images = << Img(1, "image0.jpg") >>
    /\ annotations = << Ann(1, 1, 1, 100), Ann(4, 1, 2, 300) >>
    /\ categories = LooseDataset.categories

\* C8: correct(correct_category=True) removes exactly the categories that no
\* surviving annotation references, so every held category is referenced.
C8_CorrectCategory ==
    [][(Completed("correct") /\ last'.correct_category) =>
        /\ annotations' = SelectSeq(Base.annotations, LAMBDA ann :
                              /\ ann.category_id \in Ids(Base.categories)
                              /\ ann.image_id \in Ids(Base.images))
        /\ categories' = SelectSeq(Base.categories, LAMBDA cat :
                             \E i \in 1..Len(annotations') :
                                 annotations'[i].category_id = cat.id)
        /\ \A k \in 1..Len(categories') :
               \E i \in 1..Len(annotations') :
                   annotations'[i].category_id = categories'[k].id]_vars

\* correct(correct_category=True) has completed after the image filters left
\* one annotation: of the three categories only the referenced one is held.
C8_Witness ==
    /\ last.op = "correct" /\ last.err = "none" /\ last.correct_category
    /\ dataset = TestDataset
    /\ annotations = << Ann(1, 1, 1, 100) >>
    /\ categories = << Cat(1, "category0") >>

\* The Filter Sets after one more filter is registered for target_type.
Routed(fs, filter, target_type) ==
    [t \in DOMAIN fs |->
        IF t # target_type THEN fs[t]
        ELSE IF filter.kind = "inclusion"
             THEN [include_filters |-> fs[t].include_filters \o <<filter>>,
                   exclude_filters |-> fs[t].exclude_filters]
             ELSE [include_filters |-> fs[t].include_filters,
                   exclude_filters |-> fs[t].exclude_filters \o <<filter>>]]

RoutedIf(fs, given, filter, target_type) ==
    IF given THEN Routed(fs, filter, target_type) ELSE fs

C10_InvalidTarget ==
    [][\A f \in CustomFilters, t \in CustomTargets \ TargetTypes :
          add_custom_filter(f, t) =>
              /\ last'.err = "ValueError"
              /\ EditorState' = EditorState]_vars

\* A registration for the unknown target "segment" has been refused while
\* a filter registered earlier is still held.
C10_Witness ==
    /\ last.op = "add_custom_filter" /\ last.err = "ValueError"
    /\ last.target_type = "segment"
    /\ NumFilters >= 1

RegistrationOps ==
    {"add_file_name_filter", "add_category_filter", "add_custom_filter"}

\* C11: a registration call, accepted or refused, changes none of images,
\* annotations, categories, licenses and info, and leaves filter_applied at
\* the value it had, true or false.
C11_RegistrationFrame ==
    [][last'.op \in RegistrationOps =>
          /\ images' = images
          /\ annotations' = annotations
          /\ categories' = categories
          /\ licenses' = licenses
          /\ info' = info
          /\ filter_applied' = filter_applied]_vars

\* A custom filter has been registered after the images were filtered: the
\* flag is still true and the images are still the filtered ones.
C11_Witness ==
    /\ last.op = "add_custom_filter" /\ last.err = "none"
    /\ filter_applied = TRUE
    /\ dataset = TestDataset
    /\ images = << Img(1, "image0.jpg"), Img(2, "image1.jpg") >>
    /\ Len(annotation_filters.include_filters) = 1

\* The fields the three validated collections require.
RequiredFields ==
    [image |-> {"id", "file_name", "width", "height"},
     category |-> {"id", "name", "supercategory"},
     annotation |-> {"id", "image_id", "category_id", "bbox", "area",
                     "segmentation"}]

\* The records of a document in the order validation visits them.
Checked(doc) ==
    [i \in 1..Len(doc.images) |-> [target |-> "image", d |-> doc.images[i]]]
    \o [i \in 1..Len(doc.categories) |->
           [target |-> "category", d |-> doc.categories[i]]]
    \o [i \in 1..Len(doc.annotations) |->
           [target |-> "annotation", d |-> doc.annotations[i]]]

Lacking(r) == RequiredFields[r.target] \ DOMAIN r.d

Offenders(doc) == {i \in 1..Len(Checked(doc)) : Lacking(Checked(doc)[i]) # {}}

\* The error names the first offending record and exactly its missing fields.
NamesFirstOffender(err, doc) ==
    LET first == CHOOSE i \in Offenders(doc) : \A j \in Offenders(doc) : i <= j
        r == Checked(doc)[first]
    IN /\ err.target = r.target
       /\ err.id = (IF "id" \in DOMAIN r.d THEN IdText(r.d) ELSE "Unknown")
       /\ {err.missing[i] : i \in 1..Len(err.missing)} = Lacking(r)
       /\ Len(err.missing) = Cardinality(Lacking(r))

\* C12: constructing or resetting from a document fails with the missing-field
\* error exactly when some image, category or annotation lacks a required
\* field; the error names the first such record's id, or Unknown, and exactly
\* its missing fields. apply_filter and correct never validate: with no
\* filter registered they complete whatever records are held.
C12_ValidationOnLoad ==
    /\ \A doc \in Documents :
           /\ CocoEditor(doc).err.ok <=> Offenders(doc) = {}
           /\ ~CocoEditor(doc).err.ok =>
                  NamesFirstOffender(CocoEditor(doc).err, doc)
    /\ [][/\ last'.op = "reset" =>
                 /\ last'.err = "KeyError" <=> Offenders(dataset') # {}
                 /\ last'.err = "none" <=> Offenders(dataset') = {}
                 /\ Offenders(dataset') # {} =>
                        NamesFirstOffender(last'.message, dataset')
          /\ (last'.op \in {"apply_filter", "correct"} /\ NumFilters = 0) =>
                 last'.err = "none"]_vars

\* reset has failed on the document whose second annotation has neither id
\* nor bbox: the error says Unknown and lists id and bbox.
C12_Witness ==
    /\ last.op = "reset" /\ last.err = "KeyError"
    /\ dataset = NoIdDataset
    /\ last.message.target = "annotation"
    /\ last.message.id = "Unknown"
    /\ last.message.missing = << "id", "bbox" >>

\* The editor CocoEditor(file_path) builds from the document export wrote.
Reloaded == CocoEditor(json_load(last.written))

\* C13: after a completed export, constructing an editor from the written
\* file passes validation and yields the info, licenses, images, categories
\* and annotations the exporting editor holds.
C13_RoundTrip ==
    (last.op = "export" /\ last.err = "none") =>
        /\ Reloaded.err.ok
        /\ Reloaded.self.info = info
        /\ Reloaded.self.licenses = licenses
        /\ Reloaded.self.images = images
        /\ Reloaded.self.categories = categories
        /\ Reloaded.self.annotations = annotations

\* C14: an apply_filter call in which a filter's decision function raises
\* leaves the four collections and filter_applied as they were before it.
C14_ApplyFilterAllOrNothing ==
    [][(last'.op = "apply_filter" /\ last'.err = "KeyError") =>
          /\ images' = images
          /\ categories' = categories
          /\ annotations' = annotations
          /\ licenses' = licenses
          /\ filter_applied' = filter_applied]_vars

\* C15: a reset that fails with the missing-field error leaves the
\* collections, info, the four Filter Sets and filter_applied as they were.
C15_ResetAllOrNothing ==
    [][(last'.op = "reset" /\ last'.err = "KeyError") =>
          EditorState' = EditorState]_vars

\* C16: an apply_filter called right after a completed apply_filter, with no
\* registration in between, completes and changes none of the collections.
C16_ApplyFilterIdempotent ==
    [][(last.op = "apply_filter" /\ last.err = "none"
        /\ last'.op = "apply_filter") =>
          /\ last'.err = "none"
          /\ images' = images
          /\ categories' = categories
          /\ annotations' = annotations
          /\ licenses' = licenses]_vars

\* apply_filter has completed on collections an earlier call had already
\* filtered: the images are the two the inclusion filter keeps.
C16_Witness ==
    /\ last.op = "apply_filter" /\ last.err = "none" /\ last.applied_before
    /\ dataset = TestDataset
    /\ Len(image_filters.include_filters) = 1
    /\ image_filters.exclude_filters = << >>
    /\ images = << Img(1, "image0.jpg"), Img(2, "image1.jpg") >>

\* The collections as the document last loaded gave them.
Loaded ==
    [images |-> dataset.images, categories |-> dataset.categories,
     annotations |-> dataset.annotations,
     licenses |-> Get(dataset, "licenses", << >>)]

\* The Filter Sets with their exclusion sequences emptied.
InclusionOnly(fs) ==
    [t \in DOMAIN fs |->
        [include_filters |-> fs[t].include_filters, exclude_filters |-> << >>]]

CollectionsOf(r) ==
    [images |-> r.images, categories |-> r.categories,
     annotations |-> r.annotations, licenses |-> r.licenses]

\* C17: when the collections are what "register I; apply_filter" leaves and
\* the exclusion filters E are registered as well, the next apply_filter
\* leaves what a single apply_filter with I and E leaves on the loaded
\* collections.
C17_IncrementalEqualsBatch ==
    [][(/\ ~apply_filter(Loaded, InclusionOnly(FilterSets)).raised
        /\ Collections = CollectionsOf(apply_filter(Loaded, InclusionOnly(FilterSets)))
        /\ \E t \in DOMAIN FilterSets : FilterSets[t].exclude_filters # << >>
        /\ ~apply_filter(Loaded, FilterSets).raised
        /\ Completed("apply_filter")) =>
            [images |-> images', categories |-> categories',
             annotations |-> annotations', licenses |-> licenses'] =
            CollectionsOf(apply_filter(Loaded, FilterSets))]_vars

\* C18: filter_applied is false after construction and after every completed
\* reset, true after every completed apply_filter, correct and export, with
\* or without registered filters, and once true it stays true in every step
\* that is not a reset.
C18_FilterAppliedLifecycle ==
    /\ filter_applied = FALSE
    /\ [][/\ Completed("reset") => filter_applied' = FALSE
          /\ (Completed("apply_filter") \/ Completed("correct")
              \/ Completed("export")) => filter_applied' = TRUE
          /\ (filter_applied /\ last'.op # "reset") => filter_applied']_vars

\* apply_filter has completed with no filter registered at all and the flag
\* is true.
C18_Witness ==
    /\ last.op = "apply_filter" /\ last.err = "none" /\ ~last.applied_before
    /\ NumFilters = 0
    /\ filter_applied = TRUE

\* The collection names and the Filter Set each one is filtered by.
FilterSetOf(name) ==
    CASE name = "images" -> image_filters
      [] name = "categories" -> category_filters
      [] name = "annotations" -> annotation_filters
      [] name = "licenses" -> licenses_filters

HasFilters(name) ==
    Len(FilterSetOf(name).include_filters)
    + Len(FilterSetOf(name).exclude_filters) > 0

\* C19: an apply_filter step changes no collection whose Filter Set is empty
\* and changes neither info nor any Filter Set; a correct step taken with
\* filter_applied already true changes neither licenses nor info nor any
\* Filter Set; and the aggregate a completed correct returns equals the
\* info, licenses, images, categories and annotations held after the call.
C19_FilterAndCorrectFrame ==
    [][/\ last'.op = "apply_filter" =>
            /\ \A name \in DOMAIN Collections :
                  ~HasFilters(name) => Collections'[name] = Collections[name]
            /\ info' = info
            /\ FilterSets' = FilterSets
       /\ (last'.op = "correct" /\ filter_applied) =>
            /\ licenses' = licenses
            /\ info' = info
            /\ FilterSets' = FilterSets
       /\ Completed("correct") =>
            last'.ret = [info |-> info', licenses |-> licenses',
                         images |-> images', categories |-> categories',
                         annotations |-> annotations']]_vars

\* apply_filter has completed with image filters only: images shrank and the
\* three collections without filters are the loaded ones.
C19_Witness ==
    /\ last.op = "apply_filter" /\ last.err = "none"
    /\ dataset = TestDataset
    /\ HasFilters("images")
    /\ ~HasFilters("categories") /\ ~HasFilters("annotations")
    /\ ~HasFilters("licenses")
    /\ Len(images) < Len(dataset.images)
    /\ categories = dataset.categories
    /\ annotations = dataset.annotations
    /\ licenses = dataset.licenses

\* s is an order-preserving subsequence of t: the records of s are records of
\* t, unmodified, each taken at most once and in the order t has them.
RECURSIVE IsSubseq(_, _)
IsSubseq(s, t) ==
    IF s = << >> THEN TRUE
    ELSE IF t = << >> THEN FALSE
    ELSE IF Head(s) = Head(t) THEN IsSubseq(Tail(s), Tail(t))
    ELSE IsSubseq(s, Tail(t))

\* C20: whatever has been registered, applied or corrected since the last
\* construction or reset, each of images, annotations, categories and licenses
\* is an order-preserving subsequence of the collection that was loaded, and
\* info is the loaded info.
C20_CollectionsOnlyShrink ==
    /\ \A name \in DOMAIN Collections : IsSubseq(Collections[name], Loaded[name])
    /\ info = Get(dataset, "info", << >>)

\* correct has completed after filtering: images and annotations are proper,
\* non-empty subsequences of the loaded ones.
C20_Witness ==
    /\ last.op = "correct" /\ last.err = "none"
    /\ NumFilters > 0
    /\ images # << >> /\ Len(images) < Len(dataset.images)
    /\ annotations # << >> /\ Len(annotations) < Len(dataset.annotations)

\* C21: a correct call that directly follows a completed correct call with
\* the same two flags completes and changes no collection; and a correct()
\* call that directly follows a completed correct(correct_image=False) leaves
\* the collections that correct() alone, called in place of the first of the
\* two, would have left.
C21_CorrectIdempotent ==
    [][(last.op = "correct" /\ last.err = "none" /\ last'.op = "correct") =>
          /\ (/\ last'.correct_image = last.correct_image
              /\ last'.correct_category = last.correct_category) =>
                /\ last'.err = "none"
                /\ Collections' = Collections
          /\ (/\ ~last.correct_image /\ ~last.correct_category
              /\ last'.correct_image /\ ~last'.correct_category) =>
                /\ last'.err = "none"
                /\ Collections' =
                     CollectionsOf(correct_steps(
                         correct_start(last.before.collections, FilterSets,
                                       last.before.filter_applied),
                         TRUE, FALSE))]_vars

\* correct() has completed right after a completed correct(correct_image=False)
\* that itself applied an image filter: the first call pruned annotations and
\* kept an image without annotations, the second call dropped that image.
C21_Witness ==
    /\ last.op = "correct" /\ last.err = "none"
    /\ last.correct_image /\ ~last.correct_category
    /\ last.before.after_correct_keeping_images
    /\ annotations = last.before.collections.annotations
    /\ Len(annotations) < Len(dataset.annotations)
    /\ Len(images) < Len(last.before.collections.images)

====
